---- MODULE Spec2Model ----
(***************************************************************************)
(* kvalchemy: a key/value store with per-entry expiration kept in one SQL  *)
(* table (kvalchemy/models.py), its client (kvalchemy/client.py) and the   *)
(* memoize decorator built on the client.                                  *)
(*                                                                         *)
(* The table is a set of rows.  Every facade call runs one database        *)
(* session, which is one atomic step here; pop and a memoized call are     *)
(* several sessions, so other callers interleave between their steps.      *)
(* Strings are TLC strings, so keys are built by real concatenation and    *)
(* compared character by character.                                        *)
(***************************************************************************)
EXTENDS Integers, Sequences, FiniteSets, TLC

VARIABLES store, now, program, pc, loc, last

vars == <<store, now, program, pc, loc, last>>

(***************************************************************************)
(* Bounds and universes                                                    *)
(***************************************************************************)
\* The clock runs over 0..MaxTime.
MaxTime == 2

\* Concurrent callers (threads sharing one KVAlchemy client).
Callers == {"c1", "c2"}

\* Stored values and results of the wrapped functions.
Values == {1, 2}

\* client.py:18
MEMOIZE_TAG == "__memoize__"

\* The default tag of get/set/delete/pop (client.py:90, 121, 134, 149).
DefaultTag == ""

\* kvalchemy.values.ENOVAL, the "no default given" marker (client.py:89).
ENOVAL == -1

\* pop's private sentinel object (client.py:156).
Sentinel == -2

\* Python's None, returned by set/delete/clear.
NoneVal == 0

\* The default values callers pass to get/pop.
UserDefaults == {7}

(***************************************************************************)
(* Expiration specs (kvalchemy.time.ExpirationType) and the clock          *)
(***************************************************************************)
\* An expiration spec as a caller writes it: None, a number of seconds, an
\* absolute datetime, or anything else ("bad").
NoSpec == [kind |-> "none", n |-> 0]

Seconds(n) == [kind |-> "seconds", n |-> n]

DateTime(t) == [kind |-> "datetime", n |-> t]

BadSpec == [kind |-> "bad", n |-> 0]

\* The specs a direct set is called with.
SetSpecs == {NoSpec, Seconds(1), DateTime(1), BadSpec}

\* kvalchemy.time.to_expire: None stays None (the empty set here), a duration
\* is added to the clock sampled at the call, a datetime is kept, anything
\* else raises.  The expire column is a set: {} is NULL, {t} is timestamp t.
to_expire(spec, t) ==
    CASE spec.kind = "none"     -> [ok |-> TRUE,  expire |-> {}]
      [] spec.kind = "seconds"  -> [ok |-> TRUE,  expire |-> {t + spec.n}]
      [] spec.kind = "datetime" -> [ok |-> TRUE,  expire |-> {spec.n}]
      [] OTHER                  -> [ok |-> FALSE, expire |-> {}]

(***************************************************************************)
(* The table (kvalchemy.models.KVStore)                                    *)
(***************************************************************************)
Row(key, tag, value, expire) ==
    [key |-> key, tag |-> tag, value |-> value, expire |-> expire]

\* A filter that still counts a row as unexpired at the instant it expires.
non_expired_filter_inclusive(r, t) ==
    r.expire = {} \/ \E e \in r.expire : e >= t

\* KVStore.non_expired_filter, evaluated with db_now() = t:
\* expire IS NULL OR expire > t.
non_expired_filter(r, t) == r.expire = {} \/ \E e \in r.expire : e > t

\* session.query(KVStore).filter(non_expired_filter()).filter_by(key, tag)
\* (variant: filter_by(key=key) only)
LiveRows_any_tag(s, key, tag, t) ==
    {r \in s : non_expired_filter(r, t) /\ r.key = key}

LiveRows(s, key, tag, t) ==
    {r \in s : non_expired_filter(r, t) /\ r.key = key /\ r.tag = tag}

\* A merge that leaves an existing row of the primary key as it is.
merge_keep_existing(s, row) ==
    IF \E r \in s : r.key = row.key /\ r.tag = row.tag THEN s ELSE s \cup {row}

\* A merge that always inserts.
merge_insert_only(s, row) == s \cup {row}

\* session.merge(KVStore(...)): the row with the same primary key (key, tag)
\* is updated in place, or the row is inserted.
merge(s, row) ==
    {r \in s : ~(r.key = row.key /\ r.tag = row.tag)} \cup {row}

\* (variant: only the rows whose expire is earlier than t are deleted)
delete_expired_before(s, t) ==
    {r \in s : r.expire = {} \/ \E e \in r.expire : e >= t}

\* session.query(KVStore).filter(~non_expired_filter()).delete(), db_now() = t
delete_expired(s, t) == {r \in s : non_expired_filter(r, t)}

\* The character at position i of a string.
Char(s, i) == SubSeq(s, i, i)

\* KVStore.key.startswith(p): SQLAlchemy renders it  key LIKE p || '%'  with
\* no escaping, so every "_" of p matches any one character.  (A "%" in p
\* would match any run of characters; no key prefix built here holds one.)
startswith(s, p) ==
    /\ Len(s) >= Len(p)
    /\ \A i \in 1..Len(p) : Char(p, i) = "_" \/ Char(p, i) = Char(s, i)

\* The rows _delete_startswith(key, tag) leaves.
delete_startswith(s, key, tag) ==
    {r \in s : ~(startswith(r.key, key) /\ r.tag = tag)}

\* order_by(KVStore.key.asc(), KVStore.tag.asc()): strings compare character
\* by character, a proper prefix first.  Alphabet lists the characters of
\* the keys and tags used here in the order of their codes (the binary
\* collation, SQLite's default).
Alphabet == "(),.0123456789N_abcdefghijklmnopqrstuvwxyz{}"

Ord(ch) == CHOOSE i \in 1..Len(Alphabet) : Char(Alphabet, i) = ch

RECURSIVE StrLessFrom(_, _, _)
StrLessFrom(a, b, i) ==
    IF i > Len(b) THEN FALSE
    ELSE IF i > Len(a) THEN TRUE
    ELSE IF Char(a, i) = Char(b, i) THEN StrLessFrom(a, b, i + 1)
    ELSE Ord(Char(a, i)) < Ord(Char(b, i))

StrLess(a, b) == StrLessFrom(a, b, 1)

\* Row r1 comes before row r2 in the order (key, tag).
RowLess(r1, r2) ==
    \/ StrLess(r1.key, r2.key)
    \/ r1.key = r2.key /\ StrLess(r1.tag, r2.tag)

\* The rows of S as the sequence in ascending order.
RECURSIVE Sorted(_)
Sorted(S) ==
    IF S = {} THEN << >>
    ELSE LET first == CHOOSE r \in S : \A q \in S \ {r} : RowLess(r, q)
         IN  <<first>> \o Sorted(S \ {first})

\* (variant: descending order)
order_by_desc(S) ==
    LET asc == Sorted(S)
    IN  [i \in 1..Len(asc) |-> asc[Len(asc) + 1 - i]]

order_by(S) == Sorted(S)

\* The query of __iter__: the non-expired rows, ordered by key, then tag.
iter_rows(s, t) == order_by({r \in s : non_expired_filter(r, t)})

(***************************************************************************)
(* Memoize keys                                                            *)
(***************************************************************************)
\* A decorated function: its __module__, its __qualname__ and the expire
\* argument of the decorator.
Config(m, q, e) == [module |-> m, qualname |-> q, expire |-> e]

\* Decorated functions: c of module a_b and b_c of module a, both without
\* expire; c of module a decorated with expire=1 and with expire=10.
FnABC == Config("a_b", "c", NoSpec)

FnA_BC == Config("a", "b_c", NoSpec)

FnAC1 == Config("a", "c", Seconds(1))

FnAC10 == Config("a", "c", Seconds(10))

\* f"{expire!s}"
ExpireStr(e) == IF e.kind = "none" THEN "None" ELSE ToString(e.n)

\* f"memoize.{func.__module__}_{func.__qualname__}_{expire!s}"
base_key(f) ==
    "memoize." \o f.module \o "_" \o f.qualname \o "_" \o ExpireStr(f.expire)

\* f"{base_key}_{args!s}_{kwargs!s}" for the call f(a): args = (a,), kwargs = {}
\* (variant: the arguments left out of the key)
cache_key_without_args(f, a) ==
    base_key(f)

cache_key(f, a) == base_key(f) \o "_(" \o ToString(a) \o ",)_{}"

\* A program that uses the client: its threads (callers), the functions it
\* decorates (fns), the memoized calls it makes (calls: <<i, a>> is fns[i]
\* called with a) and the keys it passes to get/set/delete/pop itself (keys).
Program(callers, fns, calls, keys) ==
    [callers |-> callers, fns |-> fns, calls |-> calls, keys |-> keys]

\* The programs modelled: one thread with two keys; two threads sharing a
\* key; two threads sharing memoized functions.  The fourth also passes, as a
\* direct key, the very string its memoized call derives.
Programs ==
    { Program({"c1"}, << >>, {}, {"k", "j"}),
      Program(Callers, << >>, {}, {"k"}),
      Program(Callers, <<FnABC>>, {<<1, 1>>, <<1, 2>>}, {}),
      Program(Callers, <<FnAC1>>, {<<1, 1>>}, {cache_key(FnAC1, 1)}),
      Program(Callers, <<FnABC, FnA_BC>>, {<<1, 1>>, <<2, 1>>}, {}),
      Program(Callers, <<FnAC1, FnAC10>>, {<<1, 1>>, <<2, 1>>}, {}) }

(***************************************************************************)
(* Outcomes and the record of the last step                                *)
(***************************************************************************)
Returned(v) == [kind |-> "return", value |-> v]

Raised(e) == [kind |-> e, value |-> NoneVal]

NoOut == [kind |-> "none", value |-> NoneVal]

\* One step of a caller as an observer saw it:
\* op    get, set, delete, clear, delete_startswith; for a memoized call
\*       also skip (expire_if was true: no lookup) and func (the function
\*       was called and its result not stored); init before any step;
\* ctx   who ran it: a direct call, pop, or a memoized call;
\* who   the caller; fn: the decorated function (0: none);
\* arg   get: the default passed (pop: pop's default); set and func: the
\*       value written or computed; else None;
\* exp   set: the expire column written;
\* flag  skip: expire_if; set and func of a memoized call:
\*       skip_saving_to_cache_if;
\* out   what the operation itself returned or raised;
\* done  whether the caller's API call ended with this step, and then
\* ret   what the API call returned or raised;
\* old   the rows stored under (key, tag), live or not, before the step;
\* live  those of them that were live when the step ran;
\* seq   whether the step starts an API call or directly follows the
\*       previous step of its own API call (no other caller in between);
\* rows  iter: the rows yielded, in the order yielded.
Step(op, ctx, who, fn, key, tag, arg, exp, flag, out, done, ret) ==
    [op |-> op, ctx |-> ctx, who |-> who, fn |-> fn, key |-> key, tag |-> tag,
     arg |-> arg, exp |-> exp, flag |-> flag, out |-> out, done |-> done,
     ret |-> ret, old |-> {r \in store : r.key = key /\ r.tag = tag},
     live |-> {r \in store : r.key = key /\ r.tag = tag
                              /\ non_expired_filter(r, now)},
     seq |-> pc[who] = "idle" \/ (last.who = who /\ ~last.done),
     rows |-> << >>]

InitStep ==
    [op |-> "init", ctx |-> "direct", who |-> "c1", fn |-> 0, key |-> "",
     tag |-> "", arg |-> NoneVal, exp |-> {}, flag |-> FALSE, out |-> NoOut,
     done |-> TRUE, ret |-> NoOut, old |-> {}, live |-> {}, seq |-> TRUE,
     rows |-> << >>]

\* Every step of a caller is recorded; a tick of the clock is not.
Record(step) == last' = step

\* A caller between API calls.
NoLoc ==
    [fn |-> 0, key |-> "", tag |-> "", val |-> NoneVal]

\* The clock values a session's sweep may sample: the body's or a later one.
SweepTimes == {t \in {now, now + 1} : t <= MaxTime}

DirectTags == {DefaultTag}

\* What get and pop receive as default: nothing (ENOVAL) or a value.
Defaults == {ENOVAL} \cup UserDefaults

(***************************************************************************)
(* The session and the bodies of the facade's operations                   *)
(***************************************************************************)
\* KVAlchemy.session(commit, delete_expired=True): a body that returns
\* normally is followed by the sweep (clock sampled again: sweepAt) and the
\* commit; a body that raises, or commit=False, persists nothing.
\* (variant: the sweep and the commit in a finally clause)
session_commits_on_failure(s, body, ok, commit, sweepAt) ==
    IF commit THEN delete_expired(body, sweepAt) ELSE s

\* (variant: the sweep and the commit whatever commit says)
session_ignores_commit(s, body, ok, commit, sweepAt) ==
    IF ok THEN delete_expired(body, sweepAt) ELSE s

session(s, body, ok, commit, sweepAt) ==
    IF ok /\ commit THEN delete_expired(body, sweepAt) ELSE s

\* query.one_or_none() followed by get's handling of a missing row.
get_result(s, key, tag, default, t) ==
    LET rows == LiveRows(s, key, tag, t)
        value == IF rows = {} THEN default ELSE (CHOOSE r \in rows : TRUE).value
    IN  IF Cardinality(rows) > 1 THEN Raised("MultipleResultsFound")
        ELSE IF value = ENOVAL THEN Raised("KeyError")
        ELSE Returned(value)

\* The body of set: to_expire, then merge.
set_body(s, key, value, tag, e) ==
    IF e.ok THEN merge(s, Row(key, tag, value, e.expire)) ELSE s

\* A delete that matches the key under any tag.
delete_body_any_tag(s, key, tag, t) ==
    s \ {r \in s : non_expired_filter(r, t) /\ r.key = key}

\* A delete that deletes nothing.
delete_body_nothing(s, key, tag, t) == s

\* The body of delete: the live row, if any, is deleted.
delete_body(s, key, tag, t) == s \ LiveRows(s, key, tag, t)

\* (variant: one() in place of one_or_none(): no matching row raises too)
delete_ok_one(s, key, tag, t) == Cardinality(LiveRows(s, key, tag, t)) = 1

\* one_or_none() raises when more than one row matches.
delete_ok(s, key, tag, t) == Cardinality(LiveRows(s, key, tag, t)) <= 1

(***************************************************************************)
(* Init                                                                    *)
(***************************************************************************)
Init ==
    /\ store = {}
    /\ now = 0
    /\ program \in Programs
    /\ pc = [c \in Callers |-> "idle"]
    /\ loc = [c \in Callers |-> NoLoc]
    /\ last = InitStep

(***************************************************************************)
(* Direct calls of the facade                                              *)
(***************************************************************************)
\* (variant: a get that deletes the row it has read)
Get_removing(c, key, tag, default, t2) ==
    /\ pc[c] = "idle"
    /\ LET out == get_result(store, key, tag, default, now)
       IN  /\ store' = session(store, delete_body(store, key, tag, now),
                               out.kind = "return", TRUE, t2)
           /\ Record(Step("get", "direct", c, 0, key, tag, default, {}, FALSE,
                          out, TRUE, out))
    /\ now' = t2
    /\ UNCHANGED <<program, pc, loc>>

\* KVAlchemy.get(key, default, tag)
Get(c, key, tag, default, t2) ==
    /\ pc[c] = "idle"
    /\ LET out == get_result(store, key, tag, default, now)
       IN  /\ store' = session(store, store, out.kind = "return", TRUE, t2)
           /\ Record(Step("get", "direct", c, 0, key, tag, default, {}, FALSE,
                          out, TRUE, out))
    /\ now' = t2
    /\ UNCHANGED <<program, pc, loc>>

\* KVAlchemy.set(key, value, tag, expire)
Set(c, key, value, tag, spec, t2) ==
    /\ pc[c] = "idle"
    /\ LET e == to_expire(spec, now)
           out == IF e.ok THEN Returned(NoneVal) ELSE Raised("TypeError")
       IN  /\ store' = session(store, set_body(store, key, value, tag, e),
                               e.ok, TRUE, t2)
           /\ Record(Step("set", "direct", c, 0, key, tag, value, e.expire,
                          FALSE, out, TRUE, out))
    /\ now' = t2
    /\ UNCHANGED <<program, pc, loc>>

\* KVAlchemy.delete(key, tag)
Delete(c, key, tag, t2) ==
    /\ pc[c] = "idle"
    /\ LET ok == delete_ok(store, key, tag, now)
           out == IF ok THEN Returned(NoneVal) ELSE Raised("MultipleResultsFound")
       IN  /\ store' = session(store, delete_body(store, key, tag, now),
                               ok, TRUE, t2)
           /\ Record(Step("delete", "direct", c, 0, key, tag, NoneVal, {},
                          FALSE, out, TRUE, out))
    /\ now' = t2
    /\ UNCHANGED <<program, pc, loc>>

\* KVAlchemy.clear()
Clear(c, t2) ==
    /\ pc[c] = "idle"
    /\ store' = session(store, {}, TRUE, TRUE, t2)
    /\ Record(Step("clear", "direct", c, 0, "", "", NoneVal, {}, FALSE,
                   Returned(NoneVal), TRUE, Returned(NoneVal)))
    /\ now' = t2
    /\ UNCHANGED <<program, pc, loc>>

\* KVAlchemy.__iter__, consumed to its end: one query in a session that
\* does not commit (and so does not sweep).
Iterate(c) ==
    /\ pc[c] = "idle"
    /\ store' = session(store, store, TRUE, FALSE, now)
    /\ Record([Step("iter", "direct", c, 0, "", "", NoneVal, {}, FALSE,
                    Returned(NoneVal), TRUE, Returned(NoneVal))
                  EXCEPT !.rows = iter_rows(store, now)])
    /\ UNCHANGED <<now, program, pc, loc>>

\* KVAlchemy.__len__: counts what __iter__ yields.
Length(c) ==
    /\ pc[c] = "idle"
    /\ store' = session(store, store, TRUE, FALSE, now)
    /\ LET count == Len(iter_rows(store, now))
       IN  Record(Step("len", "direct", c, 0, "", "", NoneVal, {}, FALSE,
                       Returned(count), TRUE, Returned(count)))
    /\ UNCHANGED <<now, program, pc, loc>>

\* A caller's own block  with kv.session(commit=False) as session:  that
\* merges a row, or deletes every row, and leaves the block normally.
SessionNoCommit(c, key, value, tag, wipe) ==
    /\ pc[c] = "idle"
    /\ LET body == IF wipe THEN {}
                   ELSE merge(store, Row(key, tag, value, {}))
       IN  store' = session(store, body, TRUE, FALSE, now)
    /\ Record(Step("nocommit", "direct", c, 0, key, tag, value, {}, wipe,
                   Returned(NoneVal), TRUE, Returned(NoneVal)))
    /\ UNCHANGED <<now, program, pc, loc>>

(***************************************************************************)
(* pop: a get session, then a delete session                               *)
(***************************************************************************)
\* pop up to and including  value = self.get(key, sentinel, tag)  and the
\* handling of the sentinel: KeyError ends the call, otherwise delete follows.
PopGet(c, key, default, tag, t2) ==
    /\ pc[c] = "idle"
    /\ LET out == get_result(store, key, tag, Sentinel, now)
           miss == out.kind = "return" /\ out.value = Sentinel
           fails == out.kind # "return" \/ (miss /\ default = ENOVAL)
           value == IF miss THEN default ELSE out.value
           ret == IF out.kind # "return" THEN out
                  ELSE IF fails THEN Raised("KeyError") ELSE NoOut
       IN  /\ store' = session(store, store, out.kind = "return", TRUE, t2)
           /\ Record(Step("get", "pop", c, 0, key, tag, default, {}, FALSE,
                          out, fails, ret))
           /\ pc' = [pc EXCEPT ![c] = IF fails THEN "idle" ELSE "pop_delete"]
           /\ loc' = [loc EXCEPT ![c] =
                         IF fails THEN NoLoc
                         ELSE [NoLoc EXCEPT !.key = key, !.tag = tag, !.val = value]]
    /\ now' = t2
    /\ UNCHANGED program

\* pop's  self.delete(key, tag)  and  return value
PopDelete(c, t2) ==
    /\ pc[c] = "pop_delete"
    /\ LET key == loc[c].key
           tag == loc[c].tag
           ok == delete_ok(store, key, tag, now)
           out == IF ok THEN Returned(NoneVal) ELSE Raised("MultipleResultsFound")
           ret == IF ok THEN Returned(loc[c].val) ELSE out
       IN  /\ store' = session(store, delete_body(store, key, tag, now),
                               ok, TRUE, t2)
           /\ Record(Step("delete", "pop", c, 0, key, tag, NoneVal, {}, FALSE,
                          out, TRUE, ret))
    /\ pc' = [pc EXCEPT ![c] = "idle"]
    /\ loc' = [loc EXCEPT ![c] = NoLoc]
    /\ now' = t2
    /\ UNCHANGED program

(***************************************************************************)
(* memoize: the wrapper and wrapper.cache_clear()                          *)
(***************************************************************************)
\* try_cache = not bool(expire_if)
\* (variant: the cache is looked up whatever expire_if says)
try_cache_always(expire_if) ==
    TRUE

try_cache(expire_if) == ~expire_if

\* (variant: the result is saved whatever skip_saving_to_cache_if says)
skip_saving_never(skip_if) ==
    FALSE

\* skip_saving_to_cache, from skip_saving_to_cache_if (a bool, or a callable
\* already applied to the result).
skip_saving_to_cache(skip_if) == skip_if

\* wrapper up to the call of func.  expire_if is what inner.expire_if is, or
\* returns, at this call.  With try_cache:  result = self.get(key,
\* tag=MEMOIZE_TAG), KeyError caught; a hit ends the call with the cached
\* value.  Without it no session is opened.
MemoLookup(c, i, a, expire_if, t2) ==
    /\ pc[c] = "idle"
    /\ LET key == cache_key(program.fns[i], a)
           out == get_result(store, key, MEMOIZE_TAG, ENOVAL, now)
           miss == out.kind = "KeyError"
           pending == [NoLoc EXCEPT !.fn = i, !.key = key, !.tag = MEMOIZE_TAG]
       IN  IF try_cache(expire_if)
           THEN /\ store' = session(store, store, out.kind = "return", TRUE, t2)
                /\ Record(Step("get", "memoize", c, i, key, MEMOIZE_TAG, ENOVAL,
                               {}, expire_if, out, ~miss,
                               IF miss THEN NoOut ELSE out))
                /\ pc' = [pc EXCEPT ![c] = IF miss THEN "memo_func" ELSE "idle"]
                /\ loc' = [loc EXCEPT ![c] = IF miss THEN pending ELSE NoLoc]
                /\ now' = t2
           ELSE /\ Record(Step("skip", "memoize", c, i, key, MEMOIZE_TAG,
                               NoneVal, {}, expire_if, NoOut, FALSE, NoOut))
                /\ pc' = [pc EXCEPT ![c] = "memo_func"]
                /\ loc' = [loc EXCEPT ![c] = pending]
                /\ UNCHANGED <<store, now>>
    /\ UNCHANGED program

\* The rest of wrapper after a miss or a skipped lookup:
\* result = func(args), returning r; skip_saving_to_cache_if evaluated on it
\* (skip_if); unless that says to skip, self.set(key, result,
\* tag=MEMOIZE_TAG, expire=expire); return result.  The call of func touches no shared state, so it is taken
\* in one step with the session that follows it.
MemoCompute(c, r, skip_if, t2) ==
    /\ pc[c] = "memo_func"
    /\ LET key == loc[c].key
           skip == skip_saving_to_cache(skip_if)
           e == to_expire(program.fns[loc[c].fn].expire, now)
           ok == skip \/ e.ok
           ret == IF ok THEN Returned(r) ELSE Raised("TypeError")
       IN  /\ store' = IF skip THEN store
                       ELSE session(store,
                                    set_body(store, key, r, MEMOIZE_TAG, e),
                                    e.ok, TRUE, t2)
           /\ Record(Step(IF skip THEN "func" ELSE "set", "memoize", c,
                          loc[c].fn, key, MEMOIZE_TAG, r,
                          IF skip THEN {} ELSE e.expire, skip_if, ret, TRUE, ret))
           /\ now' = IF skip THEN now ELSE t2
    /\ pc' = [pc EXCEPT ![c] = "idle"]
    /\ loc' = [loc EXCEPT ![c] = NoLoc]
    /\ UNCHANGED program

\* wrapper.cache_clear(): self._delete_startswith(base_key, MEMOIZE_TAG)
CacheClear(c, i, t2) ==
    /\ pc[c] = "idle"
    /\ LET key == base_key(program.fns[i])
       IN  /\ store' = session(store,
                               delete_startswith(store, key, MEMOIZE_TAG),
                               TRUE, TRUE, t2)
           /\ Record(Step("delete_startswith", "memoize", c, i, key,
                          MEMOIZE_TAG, NoneVal, {}, FALSE, Returned(NoneVal),
                          TRUE, Returned(NoneVal)))
    /\ now' = t2
    /\ UNCHANGED <<program, pc, loc>>

(***************************************************************************)
(* The clock                                                               *)
(***************************************************************************)
Tick ==
    /\ now < MaxTime
    /\ now' = now + 1
    /\ UNCHANGED <<store, program, pc, loc, last>>

(***************************************************************************)
(* The specification                                                       *)
(***************************************************************************)
Next ==
    \/ \E c \in program.callers, key \in program.keys, tag \in DirectTags,
          d \in Defaults, t2 \in SweepTimes : Get(c, key, tag, d, t2)
    \/ \E c \in program.callers, key \in program.keys, v \in Values, tag \in DirectTags,
          spec \in SetSpecs, t2 \in SweepTimes : Set(c, key, v, tag, spec, t2)
    \/ \E c \in program.callers, key \in program.keys, tag \in DirectTags,
          t2 \in SweepTimes : Delete(c, key, tag, t2)
    \/ \E c \in program.callers, t2 \in SweepTimes : Clear(c, t2)
    \/ \E c \in program.callers : Iterate(c)
    \/ \E c \in program.callers : Length(c)
    \/ \E c \in program.callers, key \in program.keys, v \in Values,
          tag \in DirectTags, wipe \in BOOLEAN :
          SessionNoCommit(c, key, v, tag, wipe)
    \/ \E c \in program.callers, key \in program.keys, d \in Defaults,
          tag \in DirectTags, t2 \in SweepTimes : PopGet(c, key, d, tag, t2)
    \/ \E c \in program.callers, t2 \in SweepTimes : PopDelete(c, t2)
    \/ \E c \in program.callers, call \in program.calls, expire_if \in BOOLEAN,
          t2 \in SweepTimes : MemoLookup(c, call[1], call[2], expire_if, t2)
    \/ \E c \in program.callers, r \in Values, skip_if \in BOOLEAN,
          t2 \in SweepTimes : MemoCompute(c, r, skip_if, t2)
    \/ \E c \in program.callers, i \in DOMAIN program.fns, t2 \in SweepTimes :
          CacheClear(c, i, t2)
    \/ Tick

Spec == Init /\ [][Next]_vars

(***************************************************************************)
(* Helpers of the properties                                               *)
(***************************************************************************)
\* The rows stored under (key, tag), live or not.
Rows(s, key, tag) == {r \in s : r.key = key /\ r.tag = tag}

\* Row r is live at time t: no expire, or expire strictly later than t.
IsLive(r, t) == \A e \in r.expire : e > t

\* Row r has an expire and it is not later than t.
IsExpired(r, t) == r.expire # {} /\ \A e \in r.expire : e <= t

KeyError == Raised("KeyError")

\* The step taken is the one last' records, and it is ...
\* ... a direct get:
GetStep ==
    /\ last'.op = "get" /\ last'.ctx = "direct"
    /\ \E t2 \in SweepTimes :
          Get(last'.who, last'.key, last'.tag, last'.arg, t2)

\* ... a direct set with expiration spec in SetSpecs:
SetStep ==
    /\ last'.op = "set" /\ last'.ctx = "direct"
    /\ \E spec \in SetSpecs, t2 \in SweepTimes :
          Set(last'.who, last'.key, last'.arg, last'.tag, spec, t2)

\* ... a direct delete:
DeleteStep ==
    /\ last'.op = "delete" /\ last'.ctx = "direct"
    /\ \E t2 \in SweepTimes : Delete(last'.who, last'.key, last'.tag, t2)

\* ... the get of a pop:
PopGetStep ==
    /\ last'.op = "get" /\ last'.ctx = "pop"
    /\ \E t2 \in SweepTimes :
          PopGet(last'.who, last'.key, last'.arg, last'.tag, t2)

\* ... the delete of a pop:
PopDeleteStep ==
    /\ last'.op = "delete" /\ last'.ctx = "pop"
    /\ \E t2 \in SweepTimes : PopDelete(last'.who, t2)

\* ... the start of the memoized call <<i, a>>:
LookupStep(i, a) ==
    /\ last'.ctx = "memoize" /\ last'.op \in {"get", "skip"}
    /\ last'.fn = i
    /\ \E t2 \in SweepTimes : MemoLookup(last'.who, i, a, last'.flag, t2)

\* ... the end of a memoized call that called the function:
ComputeStep ==
    /\ last'.ctx = "memoize" /\ last'.op \in {"set", "func"}
    /\ \E t2 \in SweepTimes :
          MemoCompute(last'.who, last'.arg, last'.flag, t2)

\* ... cache_clear of function i:
CacheClearStep(i) ==
    /\ last'.op = "delete_startswith" /\ last'.fn = i
    /\ \E t2 \in SweepTimes : CacheClear(last'.who, i, t2)

(***************************************************************************)
(* C1: an entry whose expire is set and not later than the current time is *)
(* absent for get, swept or not: get without a default raises KeyError,    *)
(* get with a default returns the default.                                 *)
(***************************************************************************)
C1_ExpiredIsAbsent ==
    [][( /\ GetStep
         /\ Rows(store, last'.key, last'.tag) # {}
         /\ \A r \in Rows(store, last'.key, last'.tag) : IsExpired(r, now) )
       => last'.ret = IF last'.arg = ENOVAL THEN KeyError
                      ELSE Returned(last'.arg)]_vars

\* A get has raised KeyError although a record of its (key, tag), expired,
\* was and still is stored.
C1_Witness ==
    /\ last.op = "get" /\ last.ctx = "direct"
    /\ last.ret = KeyError
    /\ last.old # {}
    /\ last.old \subseteq store
    /\ \A r \in last.old : IsExpired(r, now)

(***************************************************************************)
(* C2: set(key, v1, tag), set(key, v2, tag), get(key, tag), with nothing   *)
(* else in between and the entry not expired, returns v2, whatever was     *)
(* stored for (key, tag) before.  Step by step: a successful set leaves    *)
(* one row for its (key, tag), holding its value, whatever was there; the  *)
(* get that follows a successful set of the same (key, tag), while what    *)
(* was written is unexpired, returns the value written.                    *)
(***************************************************************************)
C2_SetSetGet ==
    [][/\ (SetStep /\ last'.out.kind = "return")
          => Rows(store', last'.key, last'.tag)
                \subseteq {Row(last'.key, last'.tag, last'.arg, last'.exp)}
       /\ ( /\ GetStep
            /\ last.op = "set" /\ last.out.kind = "return"
            /\ last.key = last'.key /\ last.tag = last'.tag
            /\ \A e \in last.exp : e > now )
          => last'.ret = Returned(last.arg)]_vars

\* The second set has replaced the live row of the first, which held the
\* other value, and its own row is the one stored.
C2_Witness ==
    /\ last.op = "set" /\ last.ctx = "direct" /\ last.out.kind = "return"
    /\ \E r \in last.old : r.value # last.arg /\ IsLive(r, now)
    /\ Rows(store, last.key, last.tag)
          = {Row(last.key, last.tag, last.arg, last.exp)}

(***************************************************************************)
(* C3: in every reachable state the store holds at most one row per        *)
(* (key, tag).                                                             *)
(***************************************************************************)
C3_OneRowPerKeyTag ==
    \A r1, r2 \in store : (r1.key = r2.key /\ r1.tag = r2.tag) => r1 = r2

\* A memoized call has stored its result over a row another call had
\* stored for the same key in the meantime.
C3_Witness ==
    /\ last.op = "set" /\ last.ctx = "memoize"
    /\ last.old # {}
    /\ last.old \cap store = {}
    /\ Cardinality(Rows(store, last.key, last.tag)) = 1

(***************************************************************************)
(* pop's two steps seen from the second: the step before the delete was    *)
(* the get of the same pop, so nothing ran in between.                     *)
(***************************************************************************)
\* The last step was the get of the pop that PopDeleteStep now ends, and it
\* found no live entry.
AfterOwnPopMiss ==
    /\ last.op = "get" /\ last.ctx = "pop" /\ ~last.done
    /\ last.who = last'.who
    /\ last.out = Returned(Sentinel)

\* The same, the get having found a live entry.
AfterOwnPopHit ==
    /\ last.op = "get" /\ last.ctx = "pop" /\ ~last.done
    /\ last.who = last'.who
    /\ last.out.kind = "return" /\ last.out.value # Sentinel

\* No row is added or altered by the step, and every row still unexpired
\* when the step ends (other than those of (key, tag)) is kept.
KeepsLiveRowsExcept(key, tag) ==
    /\ store' \subseteq store
    /\ \A r \in store :
          (IsLive(r, now') /\ ~(r.key = key /\ r.tag = tag)) => r \in store'

\* No row is added or altered by the step and every row still unexpired
\* when the step ends is kept: only expired rows may go.
KeepsLiveRows ==
    /\ store' \subseteq store
    /\ \A r \in store : IsLive(r, now') => r \in store'

(***************************************************************************)
(* C4 as stated: pop(key, default=D, tag) with no live entry for           *)
(* (key, tag) returns D and leaves the store unchanged: every row present  *)
(* before, the rows already expired but not yet swept included, is present *)
(* after.  (A row that expires while the step runs is left out of the      *)
(* statement.)                                                             *)
(***************************************************************************)
KeepsLiveAndExpiredRows ==
    /\ store' \subseteq store
    /\ \A r \in store : (IsLive(r, now') \/ IsExpired(r, now)) => r \in store'

C4_PopDefaultStoreUnchanged ==
    [][/\ ( /\ PopGetStep /\ last'.arg # ENOVAL
            /\ \A r \in Rows(store, last'.key, last'.tag) : ~IsLive(r, now) )
          => KeepsLiveAndExpiredRows
       /\ (PopDeleteStep /\ AfterOwnPopMiss)
          => (KeepsLiveAndExpiredRows /\ last'.ret = Returned(last.arg))]_vars

(***************************************************************************)
(* C4 amended: pop(key, default=D, tag) with no live entry for (key, tag)  *)
(* and no other caller in between returns D, adds and alters no row, and   *)
(* keeps every row that is still unexpired when its sessions end; the      *)
(* sweeps of its get and delete sessions remove the expired rows.          *)
(***************************************************************************)
C4_PopDefaultKeepsLive ==
    [][/\ ( /\ PopGetStep /\ last'.arg # ENOVAL
            /\ \A r \in Rows(store, last'.key, last'.tag) : ~IsLive(r, now) )
          => (KeepsLiveRows /\ ~last'.done /\ last'.out = Returned(Sentinel))
       /\ (PopDeleteStep /\ AfterOwnPopMiss)
          => (KeepsLiveRows /\ last'.ret = Returned(last.arg))]_vars

\* A pop has returned its default while a live entry of another (key, tag)
\* is stored.
C4_Witness ==
    /\ last.op = "delete" /\ last.ctx = "pop"
    /\ last.ret.kind = "return" /\ last.ret.value \in UserDefaults
    /\ \E r \in store : IsLive(r, now) /\ ~(r.key = last.key /\ r.tag = last.tag)

(***************************************************************************)
(* C5: with no other caller in between, pop(key, tag) on a live entry      *)
(* returns the entry's value, leaves no row for (key, tag) and keeps every *)
(* other live row; the get(key, tag) without default that follows raises   *)
(* KeyError.                                                               *)
(***************************************************************************)
C5_PopReturnsAndRemoves ==
    [][/\ ( /\ PopGetStep
            /\ \E r \in Rows(store, last'.key, last'.tag) : IsLive(r, now) )
          => ( /\ ~last'.done
               /\ \E r \in Rows(store, last'.key, last'.tag) :
                     IsLive(r, now) /\ last'.out = Returned(r.value) )
       /\ (PopDeleteStep /\ AfterOwnPopHit)
          => ( /\ last'.ret = Returned(last.out.value)
               /\ Rows(store', last'.key, last'.tag) = {}
               /\ KeepsLiveRowsExcept(last'.key, last'.tag) )
       /\ ( /\ GetStep /\ last'.arg = ENOVAL
            /\ last.op = "delete" /\ last.ctx = "pop"
            /\ last.ret.kind = "return"
            /\ last.key = last'.key /\ last.tag = last'.tag )
          => last'.ret = KeyError]_vars

\* A pop has returned the value of the row it removed, and a live entry of
\* another (key, tag) is still stored.
C5_Witness ==
    /\ last.op = "delete" /\ last.ctx = "pop"
    /\ last.old # {}
    /\ \A r \in last.old : last.ret = Returned(r.value)
    /\ Rows(store, last.key, last.tag) = {}
    /\ \E r \in store : IsLive(r, now)

(***************************************************************************)
(* Memoize: steps of the wrapper seen from the step that follows them      *)
(***************************************************************************)
\* The step before this one ended a call of function i with argument a that
\* called the function and saved its result (last.arg, expiring at last.exp).
AfterSavingCall(i, a) ==
    /\ last.ctx = "memoize" /\ last.op = "set" /\ last.out.kind = "return"
    /\ last.fn = i
    /\ last.key = cache_key(program.fns[i], a)

\* This step is the start of the call <<i, a>> with expire_if false.
PlainLookupStep(i, a) ==
    LookupStep(i, a) /\ ~last'.flag

\* The wrapper found the result cached and returned it: func is not called.
Hit(v) ==
    /\ last'.done /\ last'.ret = Returned(v)
    /\ pc'[last'.who] = "idle"

\* The wrapper found nothing cached: it goes on to call func.
Miss ==
    /\ ~last'.done
    /\ pc'[last'.who] = "memo_func"

\* two calls with equal arguments, the second directly after the first
C6_EqualArgs(unexpiredOnly) ==
    \A call \in program.calls :
       ( /\ PlainLookupStep(call[1], call[2])
         /\ AfterSavingCall(call[1], call[2])
         /\ unexpiredOnly => \A e \in last.exp : e > now )
       => (Hit(last.arg) /\ last.ret = Returned(last.arg))

\* two calls with different arguments, nothing else cached for the second
C6_DifferentArgs ==
    \A call \in program.calls :
       ( /\ PlainLookupStep(call[1], call[2])
         /\ \E other \in program.calls :
               /\ other[1] = call[1] /\ other[2] # call[2]
               /\ AfterSavingCall(other[1], other[2])
         /\ \A r \in store : r.tag = MEMOIZE_TAG => r.key = last.key )
       => Miss

\* a call directly after cache_clear of its function
C6_AfterCacheClear ==
    \A call \in program.calls :
       ( /\ PlainLookupStep(call[1], call[2])
         /\ last.op = "delete_startswith" /\ last.fn = call[1] )
       => Miss

(***************************************************************************)
(* C6 as stated: of two sequential calls with equal arguments (expire_if   *)
(* and skip_saving_to_cache_if false) the second finds the result of the   *)
(* first cached and returns it without calling the function; a call with   *)
(* different arguments calls the function; a call after cache_clear calls  *)
(* the function.                                                           *)
(***************************************************************************)
C6_MemoizeCallsOnce ==
    [][C6_EqualArgs(FALSE) /\ C6_DifferentArgs /\ C6_AfterCacheClear]_vars

(***************************************************************************)
(* C6, amended: the same, the second of two calls with equal arguments     *)
(* starting before the expiration of the entry the first has saved.        *)
(***************************************************************************)
C6_MemoizeCallsOnceUnlessExpired ==
    [][C6_EqualArgs(TRUE) /\ C6_DifferentArgs /\ C6_AfterCacheClear]_vars

\* A call has returned the cached result of the call before it, for a
\* function that has more than one argument tuple in use.
C6_Witness ==
    /\ last.ctx = "memoize" /\ last.op = "get" /\ ~last.flag
    /\ last.done /\ last.ret.kind = "return"
    /\ \A r \in last.old : last.ret = Returned(r.value)
    /\ \E call \in program.calls :
          call[1] = last.fn /\ cache_key(program.fns[call[1]], call[2]) # last.key

\* Row r is an entry memoized for function i (for one of its arguments).
MemoizedFor(i, r) ==
    /\ r.tag = MEMOIZE_TAG
    /\ \E call \in program.calls :
          call[1] = i /\ r.key = cache_key(program.fns[i], call[2])

(***************************************************************************)
(* C7 as stated: cache_clear of a wrapped function removes every entry     *)
(* memoized for that function, for all arguments, and nothing else: the    *)
(* unexpired entries memoized for another wrapped function and those under *)
(* another tag stay as they are.                                           *)
(***************************************************************************)
C7_CacheClearOnlyOwnEntries ==
    [][\A i \in DOMAIN program.fns :
          CacheClearStep(i)
          => /\ \A r \in store' : ~MemoizedFor(i, r)
             /\ store' \subseteq store
             /\ \A r \in store :
                   (~MemoizedFor(i, r) /\ IsLive(r, now')) => r \in store']_vars

(***************************************************************************)
(* C8 as stated: two wrapped functions that differ in module, qualified    *)
(* name or expire have different keys, so a call of one directly after a   *)
(* call of the other has saved its result neither finds that entry nor     *)
(* writes over it.                                                         *)
(***************************************************************************)
C8_NoCrossFunctionEntries ==
    [][\A call \in program.calls :
          /\ ( /\ LookupStep(call[1], call[2])
               /\ last.ctx = "memoize" /\ last.op = "set"
               /\ last.fn # call[1]
               /\ program.fns[last.fn] # program.fns[call[1]] )
             => /\ last'.key # last.key
                /\ last'.old \cap last.old = {}
          /\ ( /\ ComputeStep
               /\ last.ctx = "memoize" /\ last.op = "set"
               /\ last.fn # last'.fn
               /\ program.fns[last.fn] # program.fns[last'.fn] )
             => /\ last'.key # last.key
                /\ Rows(store, last.key, MEMOIZE_TAG)
                      = Rows(store', last.key, MEMOIZE_TAG)
                   \/ \A r \in Rows(store, last.key, MEMOIZE_TAG) :
                         IsExpired(r, now')]_vars

(***************************************************************************)
(* C9: when expire_if is true for a call, whatever it was for the calls    *)
(* before, the wrapper looks nothing up in the cache (no session runs: the *)
(* store is as it was) and calls the function, a live cached entry for the *)
(* same arguments notwithstanding; the call returns what the function has  *)
(* computed.                                                               *)
(***************************************************************************)
C9_ExpireIfSkipsLookup ==
    [][/\ \A call \in program.calls :
             (LookupStep(call[1], call[2]) /\ last'.flag)
             => /\ last'.op = "skip"
                /\ last'.out = NoOut
                /\ store' = store
                /\ Miss
       /\ (ComputeStep /\ last.op = "skip" /\ last'.seq /\ last'.ret.kind = "return")
          => last'.ret = Returned(last'.arg)]_vars

\* A call with expire_if true has ended, its steps one after the other,
\* while a live entry with another value was cached for its arguments: it
\* has returned the value the function computed.
C9_Witness ==
    /\ last.ctx = "memoize" /\ last.op \in {"set", "func"} /\ last.seq
    /\ \E r \in last.old : IsLive(r, now) /\ last.ret = Returned(last.arg)
                           /\ r.value # last.arg

(***************************************************************************)
(* C10 as stated: when skip_saving_to_cache_if is true for a computed      *)
(* result the call saves nothing under its key, so the call with the same  *)
(* arguments that directly follows it calls the function again.            *)
(***************************************************************************)
C10_SkippedResultIsRecomputed ==
    [][/\ (ComputeStep /\ last'.flag)
          => (last'.op = "func" /\ store' = store)
       /\ \A call \in program.calls :
             ( /\ PlainLookupStep(call[1], call[2])
               /\ last.ctx = "memoize" /\ last.op = "func" /\ last.seq
               /\ last.fn = call[1]
               /\ last.key = cache_key(program.fns[call[1]], call[2]) )
             => Miss]_vars

\* The step before this one was a direct set or delete of another caller on
\* the (key, tag) of this step; when this step is the delete of a pop, that
\* set or delete has committed between pop's get and pop's delete.
AfterConcurrentWrite ==
    /\ last.ctx = "direct" /\ last.op \in {"set", "delete"}
    /\ last.out.kind = "return"
    /\ last.who # last'.who
    /\ last.key = last'.key /\ last.tag = last'.tag

(***************************************************************************)
(* C11: pop is not atomic.  When a set or delete of another caller on the  *)
(* same (key, tag) commits between pop's get and pop's delete, pop raises  *)
(* no error, returns the value its get read (or its default), and removes  *)
(* the entry then stored under (key, tag), also when it is the value the   *)
(* other caller has just set.  That such an interleaving exists is what    *)
(* C11_Witness is reached for.                                             *)
(***************************************************************************)
C11_PopNotAtomic ==
    [][(PopDeleteStep /\ AfterConcurrentWrite)
       => /\ ~last'.seq
          /\ last'.ret = Returned(loc[last'.who].val)
          /\ Rows(store', last'.key, last'.tag) = {}]_vars

\* A pop has returned the value its get read after it removed a live entry
\* with another value, which another caller had set in between.
C11_Witness ==
    /\ last.ctx = "pop" /\ last.op = "delete" /\ ~last.seq
    /\ \E r \in last.old :
          /\ IsLive(r, now)
          /\ last.ret.kind = "return"
          /\ last.ret.value \in Values
          /\ last.ret.value # r.value
    /\ Rows(store, last.key, last.tag) = {}

\* The step before this one ended a memoized call of another caller that has
\* saved its result under the key of this step: when this step ends a call,
\* the two calls have overlapped.
AfterConcurrentSave ==
    /\ last.ctx = "memoize" /\ last.op = "set" /\ last.out.kind = "return"
    /\ last.who # last'.who
    /\ last.key = last'.key

\* This step is the set that ends a memoized call.
SaveStep ==
    ComputeStep /\ last'.op = "set" /\ last'.out.kind = "return"

\* The row a SaveStep writes.
SavedRow == Row(last'.key, MEMOIZE_TAG, last'.arg, last'.exp)

\* A second caller that starts the same call while the first is between its
\* lookup and its set, nothing being cached, misses as well.
C12_BothMiss ==
    \A call \in program.calls :
       ( /\ PlainLookupStep(call[1], call[2])
         /\ \E c \in program.callers :
               /\ c # last'.who /\ pc[c] = "memo_func"
               /\ loc[c].key = cache_key(program.fns[call[1]], call[2])
         /\ \A r \in Rows(store, last'.key, MEMOIZE_TAG) : ~IsLive(r, now) )
       => Miss

(***************************************************************************)
(* C12 as stated: two callers in the same memoized call may both miss and  *)
(* both call the function; when both calls have ended, the store holds     *)
(* exactly one entry under the key and MEMOIZE_TAG, with the value of the  *)
(* set that committed last.                                                *)
(***************************************************************************)
C12_LastSetWins ==
    [][/\ C12_BothMiss
       /\ (SaveStep /\ AfterConcurrentSave)
          => Rows(store', last'.key, MEMOIZE_TAG) = {SavedRow}]_vars

(***************************************************************************)
(* C12, amended: ... when both calls have ended, the store holds at most   *)
(* one entry under the key and MEMOIZE_TAG: the one written by the set     *)
(* that committed last, unless its expiration is not later than the time   *)
(* of the sweep of that set's session, which then has removed it.          *)
(***************************************************************************)
C12_LastSetWinsUnlessExpired ==
    [][/\ C12_BothMiss
       /\ (SaveStep /\ AfterConcurrentSave)
          => Rows(store', last'.key, MEMOIZE_TAG)
                = IF IsLive(SavedRow, now') THEN {SavedRow} ELSE {}]_vars

\* Two overlapping calls have both called the function, with different
\* results, and both have ended: the entry is the one of the later set.
C12_Witness ==
    /\ last.ctx = "memoize" /\ last.op = "set" /\ ~last.seq
    /\ \A c \in program.callers : pc[c] = "idle"
    /\ \E r \in last.old : IsLive(r, now) /\ r.value # last.arg
    /\ \E r \in store :
          /\ Rows(store, last.key, MEMOIZE_TAG) = {r}
          /\ r.value = last.arg

\* The body of the session of this step has raised.
BodyRaised == last'.out.kind \notin {"return", "none"}

(***************************************************************************)
(* C13: when the body of a session raises (set on an expiration spec that  *)
(* to_expire rejects, get on a key with no live row and no default), the   *)
(* session neither sweeps nor commits: the store is what it was before,    *)
(* the expired rows a sweep would have removed included, and the caller of *)
(* get or set receives the exception the body raised.                      *)
(***************************************************************************)
C13_FailedBodyCommitsNothing ==
    [][/\ (BodyRaised /\ (GetStep \/ SetStep \/ DeleteStep))
          => (store' = store /\ last'.ret = last'.out)
       /\ (BodyRaised /\ (PopGetStep \/ PopDeleteStep))
          => (store' = store /\ last'.ret = last'.out)
       /\ \A call \in program.calls :
             (BodyRaised /\ LookupStep(call[1], call[2])) => store' = store]_vars

\* A set has failed on its expiration spec while the store held a row that
\* was expired and not yet swept: the row is still there.
C13_Witness ==
    /\ last.ctx = "direct" /\ last.op = "set"
    /\ last.out.kind \notin {"return", "none"}
    /\ last.ret = last.out
    /\ \E r \in store : IsExpired(r, now)

\* The step taken is the one last' records, and it is ...
\* ... a full iteration:
IterStep ==
    last'.op = "iter" /\ Iterate(last'.who)

\* ... a len():
LenStep ==
    last'.op = "len" /\ Length(last'.who)

\* ... a caller's own session with commit=False:
NoCommitStep ==
    /\ last'.op = "nocommit"
    /\ SessionNoCommit(last'.who, last'.key, last'.arg, last'.tag, last'.flag)

\* The operations that run in a committing session.
CommittingOps == {"get", "set", "delete", "clear", "delete_startswith"}

(***************************************************************************)
(* C14: iteration and len(), which run in a session that does not commit,  *)
(* leave every stored row, expired or not, as it is; what a caller merges  *)
(* or deletes in a session opened with commit=False is not persisted; and  *)
(* an expired row leaves the store only in a step that is a committing     *)
(* session whose body has returned normally.                               *)
(***************************************************************************)
C14_OnlyCommittingSessionsRemove ==
    [][/\ (IterStep \/ LenStep \/ NoCommitStep) => store' = store
       /\ (\E r \in store : IsExpired(r, now) /\ r \notin store')
          => (last'.op \in CommittingOps /\ last'.out.kind = "return")]_vars

\* An iteration has run while the store held a row that was expired and not
\* yet swept: the row is still stored and was not yielded.
C14_Witness ==
    /\ last.op = "iter"
    /\ \E r \in store :
          /\ IsExpired(r, now)
          /\ \A i \in DOMAIN last.rows : last.rows[i] # r

(***************************************************************************)
(* C15: in every state iteration yields exactly the rows that are live at  *)
(* that time (no row with expire <= now, swept or not), each once, in      *)
(* ascending order of (key, tag); len() is the number of those rows.       *)
(***************************************************************************)
C15_IterateLiveInOrder ==
    [][/\ IterStep
          => /\ {last'.rows[i] : i \in DOMAIN last'.rows}
                   = {r \in store : IsLive(r, now)}
             /\ \A i, j \in DOMAIN last'.rows :
                   i < j => RowLess(last'.rows[i], last'.rows[j])
       /\ LenStep
          => /\ last'.ret = Returned(Cardinality({r \in store : IsLive(r, now)}))
             /\ last'.ret = Returned(Len(iter_rows(store, now)))]_vars

\* An iteration has yielded two rows: "j" before "k", or the row of the
\* default tag before the row of MEMOIZE_TAG with the same key.
C15_Witness ==
    /\ last.op = "iter"
    /\ Len(last.rows) = 2
    /\ \/ last.rows[1].key = "j" /\ last.rows[2].key = "k"
       \/ /\ last.rows[1].key = last.rows[2].key
          /\ last.rows[1].tag = DefaultTag /\ last.rows[2].tag = MEMOIZE_TAG

\* The step leaves the rows of the tag as they are, but for the expired ones
\* its sweep removes.
KeepsTag(tag) ==
    /\ \A r \in store : (r.tag = tag /\ IsLive(r, now')) => r \in store'
    /\ \A r \in store' : r.tag = tag => r \in store

\* No live row is stored under (key, tag).
NoLiveRow(key, tag) ==
    \A r \in Rows(store, key, tag) : ~IsLive(r, now)

(***************************************************************************)
(* C16: direct get, set and delete with the default tag neither return nor *)
(* overwrite nor remove a live row of MEMOIZE_TAG, and a memoized call or  *)
(* cache_clear neither returns nor overwrites nor removes a live row of    *)
(* the default tag, also when the keys are equal strings.                  *)
(***************************************************************************)
C16_TagsDoNotCollide ==
    [][/\ ( /\ last'.ctx = "direct" /\ last'.tag = DefaultTag
            /\ last'.op \in {"get", "set", "delete"}
            /\ (GetStep \/ SetStep \/ DeleteStep) )
          => /\ KeepsTag(MEMOIZE_TAG)
             /\ (last'.op = "get" /\ NoLiveRow(last'.key, DefaultTag))
                => last'.ret = IF last'.arg = ENOVAL THEN KeyError
                               ELSE Returned(last'.arg)
       /\ (last'.ctx = "memoize" /\ ComputeStep) => KeepsTag(DefaultTag)
       /\ \A i \in DOMAIN program.fns :
             (last'.ctx = "memoize" /\ CacheClearStep(i)) => KeepsTag(DefaultTag)
       /\ \A call \in program.calls :
             (last'.ctx = "memoize" /\ LookupStep(call[1], call[2]))
             => /\ KeepsTag(DefaultTag)
                /\ (~last'.flag /\ NoLiveRow(last'.key, MEMOIZE_TAG)) => Miss]_vars

\* A direct delete has removed the row of a key under the default tag while
\* a live row with another value was memoized under the same key string,
\* which is still there.
C16_Witness ==
    /\ last.ctx = "direct" /\ last.op = "delete" /\ last.tag = DefaultTag
    /\ \E r \in last.old, q \in store :
          /\ IsLive(r, now) /\ r \notin store
          /\ q.key = last.key /\ q.tag = MEMOIZE_TAG /\ IsLive(q, now)
          /\ q.value # r.value

\* This step is a direct delete of a (key, tag) that has no live row.
DeleteOfAbsentStep ==
    DeleteStep /\ NoLiveRow(last'.key, last'.tag)

(***************************************************************************)
(* C17 as stated: delete(key, tag) with no live row under (key, tag)       *)
(* (never written, deleted, or expired) raises nothing and is a no-op:     *)
(* every row stored before, the expired row of (key, tag) and the rows     *)
(* already expired but not yet swept included, is stored after.  (A row    *)
(* that expires while the step runs is left out of the statement.)         *)
(***************************************************************************)
C17_DeleteAbsentIsNoOp ==
    [][DeleteOfAbsentStep
       => /\ last'.ret = Returned(NoneVal)
          /\ KeepsLiveAndExpiredRows]_vars

(***************************************************************************)
(* C17, amended: delete(key, tag) with no live row under (key, tag) raises *)
(* nothing, adds and alters no row and keeps every row that is unexpired   *)
(* when its session ends; the expired rows, the one of (key, tag)          *)
(* included, are removed by its sweep.                                     *)
(***************************************************************************)
C17_DeleteAbsentKeepsLive ==
    [][DeleteOfAbsentStep
       => /\ last'.ret = Returned(NoneVal)
          /\ KeepsLiveRows
          /\ \A r \in store' : ~IsExpired(r, now')]_vars

\* A delete of a key whose row had expired has returned; the live row of
\* another key is still stored.
C17_Witness ==
    /\ last.ctx = "direct" /\ last.op = "delete"
    /\ last.ret = Returned(NoneVal)
    /\ \E r \in last.old : IsExpired(r, now)
    /\ \E r \in store : IsLive(r, now) /\ r.key # last.key

\* The step taken is the one last' records, and it is a clear():
ClearStep ==
    /\ last'.op = "clear"
    /\ \E t2 \in SweepTimes : Clear(last'.who, t2)

\* The step is a committing session of the facade whose body has returned.
CommittedStep ==
    /\ last'.op \in CommittingOps /\ last'.out.kind = "return"
    /\ IF last'.ctx = "direct"
       THEN GetStep \/ SetStep \/ DeleteStep \/ ClearStep
       ELSE IF last'.ctx = "pop"
       THEN PopGetStep \/ PopDeleteStep
       ELSE \/ SaveStep
            \/ \E i \in DOMAIN program.fns : CacheClearStep(i)
            \/ \E call \in program.calls : LookupStep(call[1], call[2])

(***************************************************************************)
(* C18: a committing session whose body returns normally sweeps after the  *)
(* body and before the commit: right after a successful get, set, delete,  *)
(* clear or cache_clear the store holds no row whose expire is at or       *)
(* before the time the sweep sampled (now' in the model), the row the same *)
(* set has just written with an expire already reached included.           *)
(***************************************************************************)
C18_SweepAfterBody ==
    [][CommittedStep
       => /\ \A r \in store' : ~IsExpired(r, now')
          /\ (last'.op = "set" /\ \E e \in last'.exp : e <= now')
             => Rows(store', last'.key, last'.tag) = {}]_vars

\* A set has returned whose expire was already reached when it was called:
\* the row it wrote is not stored.
C18_Witness ==
    /\ last.ctx = "direct" /\ last.op = "set" /\ last.out.kind = "return"
    /\ last.seq
    /\ \E e \in last.exp : e < now
    /\ Rows(store, last.key, last.tag) = {}
    /\ last.old # {}

(***************************************************************************)
(* C19: get never changes the live part of the store.  Whether it returns  *)
(* a value, returns the default or raises KeyError: no row is added or     *)
(* altered, every row live after the call was stored before it, and every  *)
(* row that was live before the call and has not expired during it is      *)
(* still stored; only expired rows are removed.                            *)
(***************************************************************************)
C19_GetKeepsLiveRows ==
    [][GetStep
       => /\ store' \subseteq store
          /\ \A r \in store : (IsLive(r, now) /\ IsLive(r, now')) => r \in store'
          /\ \A r \in store : r \notin store' => IsExpired(r, now')
          /\ last'.out = KeyError => store' = store]_vars

\* A get of a key whose row had expired has returned its default; its sweep
\* has removed that row and kept the live row of another key.
C19_Witness ==
    /\ last.ctx = "direct" /\ last.op = "get"
    /\ last.ret.kind = "return" /\ last.ret.value \in UserDefaults
    /\ \E r \in last.old : IsExpired(r, now) /\ r \notin store
    /\ \E r \in store : IsLive(r, now) /\ r.key # last.key

\* This step ends a memoized call that was made with expire_if true and
\* whose steps followed one another.
ForcedComputeStep ==
    /\ ComputeStep
    /\ last.ctx = "memoize" /\ last.op = "skip"
    /\ last.who = last'.who /\ last'.seq

\* This step starts, with expire_if false, the call <<i, a>> right after a
\* call with the same key that has called the function and saved nothing.
LookupAfterUnsavedCall(i, a) ==
    /\ PlainLookupStep(i, a)
    /\ last.ctx = "memoize" /\ last.op = "func" /\ last.seq
    /\ last.key = cache_key(program.fns[i], a)

\* Every memoized row stored before the step and unexpired when it ends is
\* stored after it, or has been replaced by the row this step has saved.
MemoRowsKept ==
    \A r \in store :
       (r.tag = MEMOIZE_TAG /\ IsLive(r, now'))
       => \/ r \in store'
          \/ /\ last'.op = "set" /\ r.key = last'.key
             /\ Rows(store', last'.key, MEMOIZE_TAG) = {SavedRow}

\* The step is a step of a memoized call.
MemoCallStep ==
    /\ last'.ctx = "memoize" /\ last'.op \in {"get", "skip", "set", "func"}
    /\ \/ ComputeStep
       \/ \E call \in program.calls : LookupStep(call[1], call[2])

\* What C20 says of one step of a memoized call, the call that follows an
\* unsaved one apart.  (The rows a session's sweep removes as expired, a row
\* just saved with an expire already reached included, are not counted as
\* removed cache entries.)
C20_StepsKeepEntries ==
    /\ MemoCallStep => MemoRowsKept
    /\ (ForcedComputeStep /\ last'.flag) => store' = store
    /\ (ForcedComputeStep /\ ~last'.flag /\ last'.out.kind = "return")
       => Rows(store', last'.key, MEMOIZE_TAG)
             = IF IsLive(SavedRow, now') THEN {SavedRow} ELSE {}

====
